---- MODULE Spec2Model ----
(***************************************************************************)
(* Connection / CDPSession of packages/renderer/src/browser/Connection.ts: *)
(* one transport multiplexed between the Connection's own calls and the    *)
(* calls of the CDPSessions attached through it.                           *)
(*                                                                         *)
(* A Promise returned by send is identified by the id _rawSend gave it; a  *)
(* settled Promise that no suspended call awaits is no longer followed.    *)
(* What a handler emits, settles and throws, and what a call returns, are  *)
(* results of the operators below, not state.  Strings the code builds are *)
(* sequences of their parts.                                               *)
(***************************************************************************)
EXTENDS Integers, Sequences, FiniteSets, TLC

\* Bounds of the model.
MaxId == 2
MaxSessions == 2

SessionIds == {"S1", "S2"}
Methods == {"Foo.bar"}
TargetTypes == {"page"}
\* The sessionId of the envelope of an attach or detach notification: none, or
\* that of the parent session.
ParentIds == {"", "S1"}

Null == 0
Undefined == "undefined"
AttachToTarget == "Target.attachToTarget"
DetachFromTarget == "Target.detachFromTarget"
AttachedToTarget == "Target.attachedToTarget"
DetachedFromTarget == "Target.detachedFromTarget"
SomeEvent == "Page.loadEventFired"
SessionAttached == "sessionattached"
SessionDetached == "sessiondetached"
ConnectionDisconnected == "Connection.Disconnected"
CDPSessionDisconnected == "CDPSession.Disconnected"

VARIABLES
    lastId,        \* Connection.#lastId
    sessions,      \* Connection.#sessions, a Map: entries <<key, session>> in insertion order
    closed,        \* Connection.#closed
    callbacks,     \* Connection.#callbacks: id -> ConnectionCallback
    hooks,         \* transport.onmessage and transport.onclose are set
    transportOpen, \* the transport has not been closed
    cdpSessions,   \* every CDPSession constructed so far; a session is its index here;
                   \* `disconnected` once it has emitted CDPSession.Disconnected
    promises,      \* the Promises that are pending or awaited: id -> its state
    awaiting,      \* the ids whose createSession call is suspended at its await
    wire           \* the id of every message handed to transport.send, in order

vars == <<lastId, sessions, closed, callbacks, hooks, transportOpen, cdpSessions,
          promises, awaiting, wire>>

-----------------------------------------------------------------------------
\* A JavaScript Map, as the sequence of its entries in insertion order.

EmptyMap == <<>>

MapHas(map, key) == \E i \in 1..Len(map) : map[i][1] = key

\* Mutant of MapGet: a key that is absent yields the first entry's value.
MapGetAny(map, key) ==
    IF MapHas(map, key)
    THEN map[CHOOSE i \in 1..Len(map) : map[i][1] = key][2]
    ELSE IF map = <<>> THEN Null ELSE map[1][2]

MapGet(map, key) ==
    IF MapHas(map, key)
    THEN map[CHOOSE i \in 1..Len(map) : map[i][1] = key][2]
    ELSE Null

MapSet(map, key, value) ==
    IF MapHas(map, key)
    THEN [i \in 1..Len(map) |-> IF map[i][1] = key THEN <<key, value>> ELSE map[i]]
    ELSE Append(map, <<key, value>>)

\* Mutant of MapDelete: the entry is not removed.
MapDeleteNothing(map, key) == map

MapDelete(map, key) == SelectSeq(map, LAMBDA e : e[1] # key)

MapValues(map) == [i \in 1..Len(map) |-> map[i][2]]

\* A callbacks table: a function from the ids it holds.
NoCallbacks == [i \in {} |-> [method |-> "", error |-> <<>>]]

-----------------------------------------------------------------------------
\* Errors.

\* new ProtocolError()
NewProtocolError == [message |-> <<>>, originalMessage |-> Undefined]

rewriteError(error, message, originalMessage) ==
    [error EXCEPT !.message = message,
                  !.originalMessage = IF originalMessage # Undefined
                                      THEN originalMessage
                                      ELSE error.originalMessage]

\* Mutant of createProtocolError: the data of the server's error is left out.
createProtocolErrorWithoutData(error, method, object) ==
    rewriteError(error, <<"Protocol error (", method, "): ", object.error.message>>,
                 object.error.message)

createProtocolError(error, method, object) ==
    LET message == <<"Protocol error (", method, "): ", object.error.message>>
        withData == IF object.error.hasData
                    THEN message \o <<" ", object.error.data>>
                    ELSE message
    IN  rewriteError(error, withData, object.error.message)

TargetClosedMessage(method) == <<"Protocol error (", method, "): ", "Target closed.">>

SessionClosedError(method, targetType) ==
    [message |-> <<"Protocol error (", method, "): ", "Session closed. Most likely the ",
                   targetType, " has been closed.">>,
     originalMessage |-> Undefined]

AlreadyDetachedError(targetType) ==
    [message |-> <<"Session already detached. Most likely the ", targetType,
                   " has been closed.">>,
     originalMessage |-> Undefined]

CreationError ==
    [message |-> <<"CDPSession creation failed.">>, originalMessage |-> Undefined]

NoError == [message |-> <<>>, originalMessage |-> Undefined]

-----------------------------------------------------------------------------
\* Promises.

NoResult == [sessionId |-> Undefined]

\* new Promise(...)
NewPromise == [state |-> "pending", value |-> NoResult, error |-> NoError]

\* `Protocol error (${callback.method}): Target closed.`
TargetClosedError(callback) ==
    rewriteError(callback.error, TargetClosedMessage(callback.method), Undefined)

\* A settlement: resolve(value) or reject(error) called on the Promise of `id`;
\* `again` when that Promise was settled before.
Settlement(proms, id, state, value, error) ==
    [id |-> id, state |-> state, value |-> value, error |-> error,
     again |-> ~(id \in DOMAIN proms /\ proms[id].state = "pending")]

\* The first settlement of a Promise decides it.
Settle(proms, id, state, value, error) ==
    IF id \in DOMAIN proms /\ proms[id].state = "pending"
    THEN [proms EXCEPT ![id] = [state |-> state, value |-> value, error |-> error]]
    ELSE proms

\* A Promise is followed while it is pending or awaited by a suspended call.
Followed(proms, waiting) ==
    [i \in {j \in DOMAIN proms : proms[j].state = "pending" \/ j \in waiting} |->
        proms[i]]

-----------------------------------------------------------------------------
\* Wire envelopes.

NoParams == [sessionId |-> "", targetInfoType |-> ""]
NoWireError == [present |-> FALSE, message |-> "", hasData |-> FALSE, data |-> ""]

Envelope(id, sessionId, method, params, result, error) ==
    [id |-> id, sessionId |-> sessionId, method |-> method, params |-> params,
     result |-> result, error |-> error]

\* JSON.stringify({...message, id})
Request(id, sessionId, method, paramsSessionId) ==
    Envelope(id, sessionId, method,
             [sessionId |-> paramsSessionId, targetInfoType |-> ""], NoResult,
             NoWireError)

SentIds == {wire[i] : i \in 1..Len(wire)}

Results == [sessionId : {"S1"}]

WireErrors ==
    {[present |-> TRUE, message |-> "boom", hasData |-> FALSE, data |-> ""],
     [present |-> TRUE, message |-> "boom", hasData |-> TRUE, data |-> "details"]}

\* What the remote side may deliver: a response to an id that was sent (under any
\* sessionId, late or repeated), an attach or a detach notification, an event.
Responses ==
    {Envelope(i, s, "", NoParams, r, NoWireError) :
        i \in SentIds \ {0}, s \in SessionIds \cup {""}, r \in Results}
    \cup
    {Envelope(i, s, "", NoParams, NoResult, e) :
        i \in SentIds \ {0}, s \in SessionIds \cup {""}, e \in WireErrors}

Notifications ==
    {Envelope(0, s, m, [sessionId |-> t, targetInfoType |-> k], NoResult, NoWireError) :
        s \in ParentIds, m \in {AttachedToTarget, DetachedFromTarget},
        t \in SessionIds, k \in TargetTypes}

Events ==
    {Envelope(0, s, SomeEvent, NoParams, NoResult, NoWireError) :
        s \in SessionIds \cup {""}}

Inbound == Responses \cup Notifications \cup Events

-----------------------------------------------------------------------------
\* The state a handler works on, threaded through its steps.

Heap ==
    [sessions |-> sessions, callbacks |-> callbacks, cdpSessions |-> cdpSessions,
     promises |-> promises, settled |-> {}, emitted |-> <<>>, threw |-> FALSE,
     trace |-> <<>>]

\* One effect of a handler, in the order the handler brought its effects about.
Effect(op, on, name, arg) == [op |-> op, on |-> on, name |-> name, arg |-> arg]

\* emitter.emit(name, arg)
Emit(h, on, name, arg) ==
    [h EXCEPT !.emitted = Append(@, [on |-> on, name |-> name, arg |-> arg]),
              !.trace = Append(@, Effect("emit", on, name, arg))]

\* new CDPSession(connection, targetType, sessionId)
NewCDPSession(targetType, sessionId) ==
    [sessionId |-> sessionId, targetType |-> targetType, callbacks |-> NoCallbacks,
     connection |-> TRUE, disconnected |-> FALSE]

\* Mutant of Resolve: resolve() is called without the result.
ResolveWithoutResult(h, id, value) ==
    [h EXCEPT !.promises = Settle(@, id, "resolved", NoResult, NoError),
              !.settled = @ \cup {Settlement(h.promises, id, "resolved", NoResult,
                                             NoError)},
              !.trace = Append(@, Effect("settle", Null, "resolved", id))]

\* callback.resolve(value)
Resolve(h, id, value) ==
    [h EXCEPT !.promises = Settle(@, id, "resolved", value, NoError),
              !.settled = @ \cup {Settlement(h.promises, id, "resolved", value, NoError)},
              !.trace = Append(@, Effect("settle", Null, "resolved", id))]

\* callback.reject(error)
Reject(h, id, error) ==
    [h EXCEPT !.promises = Settle(@, id, "rejected", NoResult, error),
              !.settled = @ \cup {Settlement(h.promises, id, "rejected", NoResult, error)},
              !.trace = Append(@, Effect("settle", Null, "rejected", id))]

RECURSIVE RejectAll(_, _, _)
\* for (const callback of table.values()) callback.reject(rewriteError(...))
RejectAll(h, table, ids) ==
    IF ids = {}
    THEN h
    ELSE LET id == CHOOSE i \in ids : \A j \in ids : i <= j
         IN  RejectAll(Reject(h, id, TargetClosedError(table[id])), table, ids \ {id})

\* Mutant of CDPSessionOnClosed: the table is not cleared.
CDPSessionOnClosedKeepsTable(h, s) ==
    LET table == h.cdpSessions[s].callbacks
        h1 == RejectAll(h, table, DOMAIN table)
    IN  Emit([h1 EXCEPT !.cdpSessions[s].connection = FALSE,
                        !.cdpSessions[s].disconnected = TRUE],
             s, CDPSessionDisconnected, Null)

\* CDPSession._onClosed
CDPSessionOnClosed(h, s) ==
    LET table == h.cdpSessions[s].callbacks
        h1 == RejectAll(h, table, DOMAIN table)
    IN  Emit([h1 EXCEPT !.cdpSessions[s].callbacks = NoCallbacks,
                        !.cdpSessions[s].connection = FALSE,
                        !.cdpSessions[s].disconnected = TRUE],
             s, CDPSessionDisconnected, Null)

\* The settlement of a callback found in a table by a response.
SettleBy(h, id, callback, object) ==
    IF object.error.present
    THEN Reject(h, id, createProtocolError(callback.error, callback.method, object))
    ELSE Resolve(h, id, object.result)

\* Mutant of TableSet: the pending call is not stored.
TableSetNothing(table, id, method) == table

\* table.set(id, {resolve, reject, error: new ProtocolError(), method})
TableSet(table, id, method) ==
    [i \in DOMAIN table \cup {id} |->
        IF i = id THEN [method |-> method, error |-> NewProtocolError] ELSE table[i]]

\* Mutant of TableDelete: the callback stays in its table.
TableDeleteNothing(table, id) == table

\* table.delete(id)
TableDelete(table, id) == [i \in DOMAIN table \ {id} |-> table[i]]

\* CDPSession._onMessage
CDPSessionOnMessage(h, s, object) ==
    LET table == h.cdpSessions[s].callbacks
    IN  IF object.id # 0 /\ object.id \in DOMAIN table
        THEN SettleBy([h EXCEPT !.cdpSessions[s].callbacks =
                                    TableDelete(table, object.id)],
                      object.id, table[object.id], object)
        ELSE IF object.id # 0
             THEN [h EXCEPT !.threw = TRUE]
             ELSE Emit(h, s, object.method, Null)

\* Mutant of OnStructural: the parent session is notified before the Connection.
OnStructuralParentFirst(h, object) ==
    IF object.method = AttachedToTarget
    THEN LET s == Len(h.cdpSessions) + 1
             h1 == [h EXCEPT !.cdpSessions =
                                 Append(@, NewCDPSession(object.params.targetInfoType,
                                                         object.params.sessionId)),
                             !.sessions = MapSet(@, object.params.sessionId, s),
                             !.trace = Append(@, Effect("set", Null,
                                                        object.params.sessionId, s))]
             parentSession == MapGet(h1.sessions, object.sessionId)
             h2 == IF parentSession # Null
                   THEN Emit(h1, parentSession, SessionAttached, s)
                   ELSE h1
         IN  Emit(h2, Null, SessionAttached, s)
    ELSE IF object.method = DetachedFromTarget
    THEN LET s == MapGet(h.sessions, object.params.sessionId)
         IN  IF s # Null
             THEN LET h1 == CDPSessionOnClosed(h, s)
                      h2 == [h1 EXCEPT !.sessions =
                                           MapDelete(@, object.params.sessionId),
                                       !.trace = Append(@, Effect("delete", Null,
                                                            object.params.sessionId, s))]
                      parentSession == MapGet(h2.sessions, object.sessionId)
                      h3 == IF parentSession # Null
                            THEN Emit(h2, parentSession, SessionDetached, s)
                            ELSE h2
                  IN  Emit(h3, Null, SessionDetached, s)
             ELSE h
    ELSE h

\* Connection.#onMessage, the attach and detach notifications
OnStructural(h, object) ==
    IF object.method = AttachedToTarget
    THEN LET s == Len(h.cdpSessions) + 1
             h1 == [h EXCEPT !.cdpSessions =
                                 Append(@, NewCDPSession(object.params.targetInfoType,
                                                         object.params.sessionId)),
                             !.sessions = MapSet(@, object.params.sessionId, s),
                             !.trace = Append(@, Effect("set", Null,
                                                        object.params.sessionId, s))]
             h2 == Emit(h1, Null, SessionAttached, s)
             parentSession == MapGet(h2.sessions, object.sessionId)
         IN  IF parentSession # Null
             THEN Emit(h2, parentSession, SessionAttached, s)
             ELSE h2
    ELSE IF object.method = DetachedFromTarget
    THEN LET s == MapGet(h.sessions, object.params.sessionId)
         IN  IF s # Null
             THEN LET h1 == CDPSessionOnClosed(h, s)
                      h2 == [h1 EXCEPT !.sessions =
                                           MapDelete(@, object.params.sessionId),
                                       !.trace = Append(@, Effect("delete", Null,
                                                            object.params.sessionId, s))]
                      h3 == Emit(h2, Null, SessionDetached, s)
                      parentSession == MapGet(h3.sessions, object.sessionId)
                  IN  IF parentSession # Null
                      THEN Emit(h3, parentSession, SessionDetached, s)
                      ELSE h3
             ELSE h
    ELSE h

\* Mutant of OnRouting: a message whose sessionId names no registered session is
\* routed as if it carried none.
OnRoutingFallsBack(h, object) ==
    IF object.sessionId # "" /\ MapGet(h.sessions, object.sessionId) # Null
    THEN CDPSessionOnMessage(h, MapGet(h.sessions, object.sessionId), object)
    ELSE IF object.id # 0
    THEN IF object.id \in DOMAIN h.callbacks
         THEN SettleBy([h EXCEPT !.callbacks = TableDelete(@, object.id)],
                       object.id, h.callbacks[object.id], object)
         ELSE h
    ELSE Emit(h, Null, object.method, Null)

\* Connection.#onMessage, the routing of the message
OnRouting(h, object) ==
    IF object.sessionId # ""
    THEN LET s == MapGet(h.sessions, object.sessionId)
         IN  IF s # Null THEN CDPSessionOnMessage(h, s, object) ELSE h
    ELSE IF object.id # 0
    THEN IF object.id \in DOMAIN h.callbacks
         THEN SettleBy([h EXCEPT !.callbacks = TableDelete(@, object.id)],
                       object.id, h.callbacks[object.id], object)
         ELSE h
    ELSE Emit(h, Null, object.method, Null)

\* Connection.#onMessage
ConnectionOnMessage(h, object) == OnRouting(OnStructural(h, object), object)

RECURSIVE CloseSessions(_, _)
\* for (const session of this.#sessions.values()) session._onClosed()
CloseSessions(h, values) ==
    IF values = <<>>
    THEN h
    ELSE CloseSessions(CDPSessionOnClosed(h, Head(values)), Tail(values))

\* Connection.#onClose, past its guard
ConnectionOnClose(h) ==
    LET h0 == RejectAll(h, h.callbacks, DOMAIN h.callbacks)
        h1 == [h0 EXCEPT !.callbacks = NoCallbacks]
        h2 == CloseSessions(h1, MapValues(h1.sessions))
        h3 == [h2 EXCEPT !.sessions = EmptyMap]
    IN  Emit(h3, Null, ConnectionDisconnected, Null)

-----------------------------------------------------------------------------
\* The steps.

\* What a call returned: a Promise pending under `id`, or one already settled;
\* `session` is the CDPSession a resolved createSession returned.
Returned(id, state, error, session) ==
    [id |-> id, state |-> state, error |-> error, session |-> session]

\* Mutant of NextId: the counter is read without being advanced.
NextIdNotAdvanced(last) == last

\* const id = ++this.#lastId
NextId(last) == last + 1

\* JSON.stringify({...message, id}) as Connection._rawSend hands it to the transport
RawSendMessage(sessionId, method, paramsSessionId) ==
    Request(NextId(lastId), sessionId, method, paramsSessionId)

\* Connection._rawSend(message)
RawSend(sessionId, method, paramsSessionId) ==
    /\ lastId' = NextId(lastId)
    /\ wire' = Append(wire, RawSendMessage(sessionId, method, paramsSessionId).id)
    /\ promises' = [i \in DOMAIN promises \cup {lastId'} |->
                        IF i = lastId' THEN NewPromise ELSE promises[i]]

\* Connection.send(method, params)
ConnectionSendFor(method, paramsSessionId) ==
    /\ RawSend("", method, paramsSessionId)
    /\ callbacks' = TableSet(callbacks, lastId', method)
    /\ UNCHANGED <<sessions, closed, hooks, transportOpen, cdpSessions>>

\* What Connection.send(method) returns
ConnectionSendReturn(method) == Returned(NextId(lastId), "pending", NoError, Null)

\* Connection.send(method)
ConnectionSend(method) ==
    /\ lastId < MaxId
    /\ ConnectionSendFor(method, "")
    /\ UNCHANGED awaiting

\* Connection.createSession(targetInfo), up to its await
CreateSession ==
    /\ lastId < MaxId
    /\ ConnectionSendFor(AttachToTarget, "")
    /\ awaiting' = awaiting \cup {lastId'}

\* Mutant of CreatedSession: the first registered session is taken, whatever its id.
CreatedSessionFirst(value) == IF sessions = EmptyMap THEN Null ELSE sessions[1][2]

\* const session = this.#sessions.get(sessionId)
CreatedSession(value) == MapGet(sessions, value.sessionId)

\* What createSession returns when it resumes on the settled Promise of `id`
CreateSessionReturn(id) ==
    IF promises[id].state = "rejected"
    THEN Returned(id, "rejected", promises[id].error, Null)
    ELSE IF CreatedSession(promises[id].value) = Null
    THEN Returned(id, "rejected", CreationError, Null)
    ELSE Returned(id, "resolved", NoError, CreatedSession(promises[id].value))

\* Connection.createSession, resumed after its await
CreateSessionResume(id) ==
    /\ id \in awaiting
    /\ promises[id].state # "pending"
    /\ awaiting' = awaiting \ {id}
    /\ promises' = Followed(promises, awaiting')
    /\ UNCHANGED <<lastId, sessions, closed, callbacks, hooks, transportOpen,
                   cdpSessions, wire>>

\* Mutant of SessionIsClosed: send does not look at the connection reference.
SessionIsClosedNever(s) == FALSE

\* if (!this.#connection)
SessionIsClosed(s) == ~cdpSessions[s].connection

\* What CDPSession.send(method) on session s returns
SessionSendReturn(s, method) ==
    IF SessionIsClosed(s)
    THEN Returned(0, "rejected", SessionClosedError(method, cdpSessions[s].targetType),
                  Null)
    ELSE Returned(NextId(lastId), "pending", NoError, Null)

\* CDPSession.send(method) on session s
SessionSend(s, method) ==
    IF SessionIsClosed(s)
    THEN UNCHANGED vars
    ELSE /\ lastId < MaxId
         /\ RawSend(cdpSessions[s].sessionId, method, "")
         /\ cdpSessions' = [cdpSessions EXCEPT ![s].callbacks =
                                                   TableSet(@, lastId', method)]
         /\ UNCHANGED <<sessions, closed, callbacks, hooks, transportOpen, awaiting>>

\* What CDPSession.detach() on session s returns
SessionDetachReturn(s) ==
    IF ~cdpSessions[s].connection
    THEN Returned(0, "rejected", AlreadyDetachedError(cdpSessions[s].targetType), Null)
    ELSE Returned(NextId(lastId), "pending", NoError, Null)

\* Mutant of SessionDetach: detach() also runs the session's closure routine.
SessionDetachTearsDown(s) ==
    IF ~cdpSessions[s].connection
    THEN UNCHANGED vars
    ELSE /\ lastId < MaxId
         /\ RawSend("", DetachFromTarget, cdpSessions[s].sessionId)
         /\ callbacks' = TableSet(callbacks, lastId', DetachFromTarget)
         /\ cdpSessions' = CDPSessionOnClosed(Heap, s).cdpSessions
         /\ UNCHANGED <<sessions, closed, hooks, transportOpen, awaiting>>

\* CDPSession.detach() on session s
SessionDetach(s) ==
    IF ~cdpSessions[s].connection
    THEN UNCHANGED vars
    ELSE /\ lastId < MaxId
         /\ ConnectionSendFor(DetachFromTarget, cdpSessions[s].sessionId)
         /\ UNCHANGED awaiting

\* The state Connection.#onMessage(object) leaves
OnMessageHeap(object) == ConnectionOnMessage(Heap, object)

\* Connection.#onMessage(message), invoked by the transport
OnMessage(object) ==
    /\ hooks
    /\ transportOpen
    /\ object.method = AttachedToTarget => Len(cdpSessions) < MaxSessions
    /\ LET h == OnMessageHeap(object)
       IN  /\ sessions' = h.sessions
           /\ callbacks' = h.callbacks
           /\ cdpSessions' = h.cdpSessions
           /\ promises' = Followed(h.promises, awaiting)
    /\ UNCHANGED <<lastId, closed, hooks, transportOpen, awaiting, wire>>

\* Mutant of OnCloseHeap: the closure routine runs without its guard.
OnCloseHeapUnguarded == ConnectionOnClose(Heap)

\* The state Connection.#onClose() leaves
OnCloseHeap == IF closed THEN Heap ELSE ConnectionOnClose(Heap)

\* Connection.#onClose
OnClose ==
    IF closed
    THEN UNCHANGED <<closed, hooks, sessions, callbacks, cdpSessions, promises>>
    ELSE /\ closed' = TRUE
         /\ hooks' = FALSE
         /\ sessions' = OnCloseHeap.sessions
         /\ callbacks' = OnCloseHeap.callbacks
         /\ cdpSessions' = OnCloseHeap.cdpSessions
         /\ promises' = Followed(OnCloseHeap.promises, awaiting)

\* The transport terminates and invokes its onclose hook.
TransportOnClose ==
    /\ transportOpen
    /\ hooks
    /\ OnClose
    /\ transportOpen' = FALSE
    /\ UNCHANGED <<lastId, awaiting, wire>>

\* Connection.dispose()
Dispose ==
    /\ OnClose
    /\ transportOpen' = FALSE
    /\ UNCHANGED <<lastId, awaiting, wire>>

Init ==
    /\ lastId = 0
    /\ sessions = EmptyMap
    /\ closed = FALSE
    /\ callbacks = NoCallbacks
    /\ hooks = TRUE
    /\ transportOpen = TRUE
    /\ cdpSessions = <<>>
    /\ promises = [i \in {} |-> NewPromise]
    /\ awaiting = {}
    /\ wire = <<>>

Next ==
    \/ \E method \in Methods : ConnectionSend(method)
    \/ CreateSession
    \/ \E id \in awaiting : CreateSessionResume(id)
    \/ \E s \in 1..Len(cdpSessions), method \in Methods : SessionSend(s, method)
    \/ \E s \in 1..Len(cdpSessions) : SessionDetach(s)
    \/ \E object \in Inbound : OnMessage(object)
    \/ TransportOnClose
    \/ Dispose

Spec == Init /\ [][Next]_vars

-----------------------------------------------------------------------------
\* Properties.

CDPSessions == 1..Len(cdpSessions)

\* The tables of pending calls: the Connection's (owner Null) and each CDPSession's.
Owners == {Null} \cup CDPSessions
TableOf(owner) == IF owner = Null THEN callbacks ELSE cdpSessions[owner].callbacks

\* The ids with a pending call registered in some table.
Registered == UNION {DOMAIN TableOf(owner) : owner \in Owners}

IsPending(id) == id \in DOMAIN promises /\ promises[id].state = "pending"

\* C1: every id handed to the transport is greater than every id handed to it
\* before, and no id is pending in two tables at once (nor pending without
\* having been sent).
C1_IdsStrictlyIncrease ==
    /\ \A i, j \in 1..Len(wire) : i < j => wire[i] < wire[j]
    /\ \A a, b \in Owners : a # b => DOMAIN TableOf(a) \cap DOMAIN TableOf(b) = {}
    /\ Registered \subseteq SentIds

\* Two calls are outstanding at once, one of the Connection and one of a CDPSession.
C1_Witness ==
    /\ Len(wire) >= 2
    /\ DOMAIN callbacks # {}
    /\ \E s \in CDPSessions : DOMAIN cdpSessions[s].callbacks # {}

\* C2 (as claimed): when the Connection closes, every call issued before is settled,
\* and settled once: none is left pending by the closure and none is settled twice.
C2_ClosureSettlesEveryCall ==
    [][(~closed /\ closed') =>
          /\ \A id \in DOMAIN promises' : promises'[id].state # "pending"
          /\ \A r \in OnCloseHeap.settled : ~r.again]_vars

\* C3 (as claimed): once closed, both maps are empty and nothing more is handed to
\* the transport.
C3_ClosedIsQuiet ==
    [][closed' =>
          /\ sessions' = EmptyMap
          /\ callbacks' = NoCallbacks
          /\ closed => wire' = wire]_vars

\* C4 (as claimed): Connection.send on a closed Connection returns a rejected result
\* and hands nothing to the transport.
C4_SendOnClosedConnectionRejects ==
    [][\A method \in Methods :
          (closed /\ ConnectionSend(method)) =>
              /\ wire' = wire
              /\ ConnectionSendReturn(method).state = "rejected"]_vars

\* C5: send on a CDPSession whose closure routine has run returns a Promise rejected
\* with the session-closed error, and the step hands nothing to the transport, leaves
\* the id counter alone and registers no pending call.
C5_SendOnClosedSessionRejects ==
    /\ [](\A s \in CDPSessions, method \in Methods :
            cdpSessions[s].disconnected =>
                SessionSendReturn(s, method) =
                    Returned(0, "rejected",
                             [message |-> <<"Protocol error (", method, "): ",
                                            "Session closed. Most likely the ",
                                            cdpSessions[s].targetType,
                                            " has been closed.">>,
                              originalMessage |-> Undefined],
                             Null))
    /\ [][\A s \in CDPSessions, method \in Methods :
            (cdpSessions[s].disconnected /\ SessionSend(s, method)) =>
                UNCHANGED <<wire, lastId, callbacks, cdpSessions, promises>>]_vars

\* A CDPSession was closed by a detach notification while the Connection is open
\* and ids are left, so that a send on it would otherwise go out.
C5_Witness ==
    /\ ~closed
    /\ lastId < MaxId
    /\ \E s \in CDPSessions : cdpSessions[s].disconnected

\* C6 (as claimed): the closure of the Connection rejects every outstanding call of
\* the Connection and of its CDPSessions with the target-closed error, and leaves
\* the sessions map and every table empty and every CDPSession without connection.
C6_ClosureRejectsAll ==
    [][(~closed /\ closed') =>
          /\ \A owner \in Owners : \A id \in DOMAIN TableOf(owner) :
                \E r \in OnCloseHeap.settled :
                    /\ r.id = id
                    /\ r.state = "rejected"
                    /\ r.error.message = <<"Protocol error (", TableOf(owner)[id].method,
                                           "): ", "Target closed.">>
          /\ sessions' = EmptyMap
          /\ callbacks' = NoCallbacks
          /\ \A s \in CDPSessions :
                /\ cdpSessions'[s].callbacks = NoCallbacks
                /\ ~cdpSessions'[s].connection]_vars

\* An attach (detach) notification naming S is what this step handled.
Attached(S) ==
    \E object \in Notifications :
        /\ object.method = AttachedToTarget
        /\ object.params.sessionId = S
        /\ OnMessage(object)
Detached(S) ==
    \E object \in Notifications :
        /\ object.method = DetachedFromTarget
        /\ object.params.sessionId = S
        /\ OnMessage(object)

\* session(sessionId)
Session(sessionId) == MapGet(sessions, sessionId)

\* C7: session(S) is absent at first; the handling of an attach notification for S
\* leaves a live CDPSession with id S registered under S, once; the handling of a
\* detach notification for S, and the closure of the Connection, leave none; and a
\* step that is neither the handling of such a notification nor the closure leaves
\* session(S) as it was.
C7_RegisteredFromAttachToDetach ==
    /\ \A S \in SessionIds : ~(\E i \in 1..Len(sessions) : sessions[i][1] = S)
    /\ [](\A object \in Notifications :
            LET S == object.params.sessionId
                h == OnMessageHeap(object)
                at == {i \in 1..Len(h.sessions) : h.sessions[i][1] = S}
            IN  /\ object.method = AttachedToTarget =>
                      /\ Cardinality(at) = 1
                      /\ h.cdpSessions[MapGet(h.sessions, S)].sessionId = S
                      /\ h.cdpSessions[MapGet(h.sessions, S)].connection
                /\ object.method = DetachedFromTarget => at = {})
    /\ [][\A S \in SessionIds :
            LET before == \E i \in 1..Len(sessions) : sessions[i][1] = S
                after == \E i \in 1..Len(sessions') : sessions'[i][1] = S
                closing == ~closed /\ closed'
                same == after = before /\ Session(S)' = Session(S)
            IN  /\ closing => ~after
                /\ same \/ closing \/ Attached(S) \/ Detached(S)]_vars

\* On an open Connection a CDPSession was attached under S1 and detached again,
\* and session("S1") is absent.
C7_Witness ==
    /\ ~closed
    /\ Session("S1") = Null
    /\ \E s \in CDPSessions :
          cdpSessions[s].sessionId = "S1" /\ cdpSessions[s].disconnected

\* The owner an envelope is addressed to: the Connection without sessionId, else
\* the CDPSession registered under it (none: -1).
Addressed(object) ==
    IF object.sessionId = "" THEN Null
    ELSE IF \E i \in 1..Len(sessions) : sessions[i][1] = object.sessionId
    THEN sessions[CHOOSE i \in 1..Len(sessions) : sessions[i][1] = object.sessionId][2]
    ELSE -1

\* C8: a success response carrying the id of a pending call of the owner it is
\* addressed to removes that call from the owner's table and resolves it with the
\* response's result; every other pending call, the id counter and the sessions map
\* are as before.
C8_SuccessResponseResolvesOnlyItsCall ==
    [][\A id \in Registered, sessionId \in SessionIds \cup {""}, result \in Results :
          LET object == Envelope(id, sessionId, "", NoParams, result, NoWireError)
              owner == Addressed(object)
          IN  (/\ owner # -1
               /\ object.id \in DOMAIN TableOf(owner)
               /\ OnMessage(object)) =>
                  /\ OnMessageHeap(object).settled =
                        {[id |-> object.id, state |-> "resolved",
                          value |-> object.result, error |-> NoError, again |-> FALSE]}
                  /\ ~IsPending(object.id)'
                  /\ object.id \in awaiting =>
                        /\ promises'[object.id].state = "resolved"
                        /\ promises'[object.id].value = object.result
                  /\ \A other \in DOMAIN promises \ {object.id} :
                        other \in DOMAIN promises' /\ promises'[other] = promises[other]
                  /\ callbacks' = IF owner = Null
                                  THEN [i \in DOMAIN callbacks \ {object.id} |-> callbacks[i]]
                                  ELSE callbacks
                  /\ \A s \in CDPSessions :
                        cdpSessions'[s] =
                            IF s = owner
                            THEN [cdpSessions[s] EXCEPT !.callbacks =
                                    [i \in DOMAIN cdpSessions[s].callbacks \ {object.id} |->
                                        cdpSessions[s].callbacks[i]]]
                            ELSE cdpSessions[s]
                  /\ Len(cdpSessions') = Len(cdpSessions)
                  /\ UNCHANGED <<lastId, sessions, wire>>]_vars

\* A call of the Connection has been resolved by a success response (a suspended
\* createSession still holds its result) while a call of a CDPSession is pending.
C8_Witness ==
    /\ \E id \in awaiting : promises[id].state = "resolved" /\ id \notin Registered
    /\ \E s \in CDPSessions : DOMAIN cdpSessions[s].callbacks # {}

\* C9: no handler settles a Promise that was settled before, whatever message
\* arrives and whenever the Connection closes; a call is in a table exactly while
\* its Promise is pending, and a settled call never becomes pending again.
C9_SettledAtMostOnce ==
    /\ [](/\ \A object \in Inbound : \A r \in OnMessageHeap(object).settled : ~r.again
          /\ \A r \in OnCloseHeap.settled : ~r.again
          /\ \A id \in SentIds : IsPending(id) <=> id \in Registered)
    /\ [][\A id \in SentIds : ~IsPending(id) => ~IsPending(id)']_vars

\* A call was settled and the transport can still deliver a late response to it.
C9_Witness ==
    /\ hooks
    /\ \E id \in SentIds : ~IsPending(id)

\* C10: createSession registers an attach command on the Connection; resumed on a
\* success response naming S, it returns the CDPSession registered under S, whose id
\* is S, or fails with the creation error when none is registered; resuming creates
\* no CDPSession and registers none.
C10_CreateSessionReturnsRegistered ==
    /\ [](\A id \in awaiting :
            promises[id].state = "resolved" =>
                LET S == promises[id].value.sessionId
                    r == CreateSessionReturn(id)
                IN  IF \E i \in 1..Len(sessions) : sessions[i][1] = S
                    THEN /\ r.state = "resolved"
                         /\ \E i \in 1..Len(sessions) : sessions[i] = <<S, r.session>>
                         /\ cdpSessions[r.session].sessionId = S
                    ELSE /\ r.state = "rejected"
                         /\ r.error.message = <<"CDPSession creation failed.">>
                         /\ r.session = Null)
    /\ [][/\ CreateSession =>
                /\ lastId' \in DOMAIN callbacks'
                /\ callbacks'[lastId'].method = "Target.attachToTarget"
                /\ UNCHANGED <<sessions, cdpSessions>>
          /\ \A id \in awaiting :
                CreateSessionResume(id) =>
                    UNCHANGED <<sessions, cdpSessions, callbacks, lastId, wire>>]_vars

\* A createSession call is about to resume on a success response naming S1 while
\* S1 is not registered and another CDPSession is.
C10_Witness ==
    \E id \in awaiting :
        /\ promises[id].state = "resolved"
        /\ Session(promises[id].value.sessionId) = Null
        /\ sessions # EmptyMap

-----------------------------------------------------------------------------
\* The ids a handler settled.
SettledIds(h) == {r.id : r \in h.settled}

\* The closure routine of `owner` is what the handling of `object` runs: a detach
\* notification naming the id under which the CDPSession `owner` is registered.
ClosesOwner(object, owner) ==
    /\ object.method = DetachedFromTarget
    /\ owner # Null
    /\ MapGet(sessions, object.params.sessionId) = owner

\* C11: whatever message arrives, the calls its handling settles are the call whose
\* id it carries, when it is addressed to the owner of that call, and the calls of
\* the CDPSession a detach notification closes; the closure of the Connection
\* settles registered calls only; and a step after which a registered call is no
\* longer pending is the closure of the Connection or the handling of such a message.
C11_SettledOnlyByResponseOrClosure ==
    /\ [](/\ \A object \in Inbound : \A id \in SettledIds(OnMessageHeap(object)) :
                \E owner \in Owners :
                    /\ id \in DOMAIN TableOf(owner)
                    /\ \/ object.id = id /\ Addressed(object) = owner
                       \/ ClosesOwner(object, owner)
          /\ SettledIds(OnCloseHeap) \subseteq Registered)
    /\ [][\A owner \in Owners : \A id \in DOMAIN TableOf(owner) :
            IsPending(id)' \/
                \/ ~closed /\ closed' /\
                      (owner = Null \/ \E i \in 1..Len(sessions) : sessions[i][2] = owner)
                \/ \E object \in Inbound :
                      /\ \/ object.id = id /\ Addressed(object) = owner
                         \/ ClosesOwner(object, owner)
                      /\ OnMessage(object)]_vars

\* A CDPSession was closed by a detach notification while a call of the Connection
\* and a call of another, registered CDPSession are still pending.
C11_Witness ==
    /\ hooks
    /\ DOMAIN callbacks # {}
    /\ \E s, t \in CDPSessions :
          /\ cdpSessions[s].disconnected
          /\ cdpSessions[t].connection
          /\ DOMAIN cdpSessions[t].callbacks # {}

\* The method a registered call was sent with, as captured in its table.
MethodOf(id) ==
    LET owner == CHOOSE o \in Owners : id \in DOMAIN TableOf(o)
    IN  TableOf(owner)[id].method

\* The text of the rejection an error response brings about for a call of `method`.
ProtocolErrorText(method, object) ==
    IF object.error.hasData
    THEN <<"Protocol error (", method, "): ", object.error.message, " ",
           object.error.data>>
    ELSE <<"Protocol error (", method, "): ", object.error.message>>

\* C12: a send stores its own method with the pending call, and the method stays
\* with the call; the rejection an error response brings about is that of the call
\* with its id and carries that call's method, the server's message and its data
\* when present; every other rejection by a message and every rejection by the
\* closure of the Connection carries the method of the call it rejects followed by
\* the target-closed text.
C12_RejectionCarriesMethod ==
    /\ [](/\ \A object \in Inbound : \A r \in OnMessageHeap(object).settled :
                /\ r.id \in Registered
                /\ r.state = "rejected" =>
                      r.error.message =
                          IF object.error.present
                          THEN ProtocolErrorText(MethodOf(r.id), object)
                          ELSE <<"Protocol error (", MethodOf(r.id), "): ",
                                 "Target closed.">>
                /\ object.error.present =>
                      r.id = object.id /\ r.state = "rejected"
          /\ \A r \in OnCloseHeap.settled :
                /\ r.state = "rejected"
                /\ r.error.message =
                      <<"Protocol error (", MethodOf(r.id), "): ", "Target closed.">>)
    /\ [][/\ \A method \in Methods :
                ConnectionSend(method) => callbacks'[lastId'].method = method
          /\ CreateSession => callbacks'[lastId'].method = "Target.attachToTarget"
          /\ \A s \in CDPSessions :
                /\ \A method \in Methods :
                      (cdpSessions[s].connection /\ SessionSend(s, method)) =>
                          cdpSessions'[s].callbacks[lastId'].method = method
                /\ (cdpSessions[s].connection /\ SessionDetach(s)) =>
                      callbacks'[lastId'].method = "Target.detachFromTarget"
          /\ \A owner \in Owners : \A id \in DOMAIN TableOf(owner) :
                id \in DOMAIN TableOf(owner)' =>
                    TableOf(owner)'[id].method = TableOf(owner)[id].method]_vars

\* Two calls sent with different methods are pending in one table while the
\* transport can deliver an error response to either.
C12_Witness ==
    /\ hooks
    /\ \E i, j \in DOMAIN callbacks : callbacks[i].method # callbacks[j].method

\* The names emitted by a handler on `on` (Null: the Connection).
EmittedOn(h, on) ==
    [i \in 1..Len(SelectSeq(h.emitted, LAMBDA e : e.on = on)) |->
        SelectSeq(h.emitted, LAMBDA e : e.on = on)[i].name]

\* C13: closed never goes back to false; on a closed Connection the closure routine
\* settles nothing and emits nothing, and a dispose (the transport's hook is gone)
\* changes no table, no session and no Promise; the first closure emits the
\* Connection's disconnected notification once and a CDPSession's only on sessions
\* that had not emitted theirs.
C13_ClosureIsIdempotent ==
    /\ [](/\ closed => ~hooks
          /\ closed => OnCloseHeap.emitted = <<>> /\ OnCloseHeap.settled = {}
          /\ ~closed =>
                /\ EmittedOn(OnCloseHeap, Null) = <<ConnectionDisconnected>>
                /\ \A s \in CDPSessions :
                      EmittedOn(OnCloseHeap, s) \in {<<>>, <<CDPSessionDisconnected>>}
                /\ \A s \in CDPSessions :
                      cdpSessions[s].disconnected => EmittedOn(OnCloseHeap, s) = <<>>)
    /\ [][/\ closed => closed'
          /\ (closed /\ (Dispose \/ TransportOnClose)) =>
                UNCHANGED <<closed, hooks, sessions, callbacks, cdpSessions, promises,
                            lastId, wire, awaiting>>]_vars

\* The Connection is closed, a CDPSession has emitted its disconnected notification
\* and a call sent since the closure sits in the Connection's table, where a second
\* run of the closure routine would find it.
C13_Witness ==
    /\ closed
    /\ DOMAIN callbacks # {}
    /\ \E s \in CDPSessions : cdpSessions[s].disconnected

\* The success and error responses to the pending call `id` of the Connection.
ResponsesTo(id) ==
    {Envelope(id, "", "", NoParams, r, NoWireError) : r \in Results}
    \cup {Envelope(id, "", "", NoParams, NoResult, e) : e \in WireErrors}

\* C14: detach() on a live CDPSession takes one id, hands one message to the
\* transport and registers one call of Target.detachFromTarget in the Connection's
\* table, and changes nothing else; the response to that call, success or error,
\* leaves the sessions map and every CDPSession as they were, so that the session is
\* still registered, holds its connection, has its calls pending and accepts send.
C14_DetachOnlyIssuesCommand ==
    [][/\ \A s \in CDPSessions :
            (cdpSessions[s].connection /\ SessionDetach(s)) =>
                /\ lastId' = lastId + 1
                /\ wire' = Append(wire, lastId')
                /\ DOMAIN callbacks' = DOMAIN callbacks \cup {lastId'}
                /\ lastId' \notin DOMAIN callbacks
                /\ callbacks'[lastId'].method = "Target.detachFromTarget"
                /\ \A id \in DOMAIN callbacks : callbacks'[id] = callbacks[id]
                /\ SessionDetachReturn(s) = Returned(lastId', "pending", NoError, Null)
                /\ \A id \in DOMAIN promises : IsPending(id) => IsPending(id)'
                /\ UNCHANGED <<sessions, cdpSessions, closed>>
       /\ \A id \in DOMAIN callbacks : \A object \in ResponsesTo(id) :
            (callbacks[id].method = DetachFromTarget /\ OnMessage(object)) =>
                /\ ~IsPending(id)'
                /\ UNCHANGED <<sessions, cdpSessions, closed>>
                /\ \A s \in CDPSessions :
                      /\ \A call \in DOMAIN cdpSessions[s].callbacks : IsPending(call)'
                      /\ cdpSessions[s].connection =>
                            \A method \in Methods :
                                SessionSendReturn(s, method)'.state = "pending"]_vars

\* The only CDPSession, registered and with a call pending, has called detach(): the
\* detach command is pending on the Connection and its response can arrive.
C14_Witness ==
    /\ hooks
    /\ Len(cdpSessions) = 1
    /\ Session(cdpSessions[1].sessionId) = 1
    /\ cdpSessions[1].connection
    /\ DOMAIN cdpSessions[1].callbacks # {}
    /\ \E id \in DOMAIN callbacks : callbacks[id].method = DetachFromTarget

\* What the claim of C15 says of the handling of `object`: with a sessionId, no call
\* of the Connection is settled and the message is not emitted on the Connection
\* under its method name, what is settled or emitted belongs to the CDPSession
\* registered under the sessionId, and nothing is settled or emitted when none is;
\* without a sessionId, no call of a CDPSession is settled.
RoutedBySessionId(object) ==
    LET h == OnMessageHeap(object)
        owner == Addressed(object)
    IN  IF object.sessionId # ""
        THEN /\ SettledIds(h) \cap DOMAIN callbacks = {}
             /\ h.callbacks = callbacks
             /\ \A i \in 1..Len(h.emitted) :
                   ~(h.emitted[i].on = Null /\ h.emitted[i].name = object.method)
             /\ owner = -1 => h.settled = {} /\ h.emitted = <<>>
             /\ owner # -1 =>
                   /\ SettledIds(h) \subseteq DOMAIN TableOf(owner)
                   /\ \A i \in 1..Len(h.emitted) : h.emitted[i].on = owner
        ELSE /\ \A s \in CDPSessions :
                   SettledIds(h) \cap DOMAIN cdpSessions[s].callbacks = {}

\* C15 (as claimed): every inbound envelope is routed by its sessionId in this way.
C15_RoutingBySessionIdOfEveryEnvelope ==
    \A object \in Inbound : RoutedBySessionId(object)

\* C15 (amended): every response and every event is routed by its sessionId in this
\* way; for an attach or a detach notification, whose handling first registers or
\* closes the CDPSession it names, the routing that follows settles nothing, leaves
\* the Connection's table alone and emits only on the CDPSession registered under
\* the envelope's sessionId, and nothing when there is none or no sessionId.
C15_RoutingBySessionId ==
    /\ \A object \in Responses \cup Events : RoutedBySessionId(object)
    /\ \A object \in Notifications :
          LET h1 == OnStructural(Heap, object)
              h2 == OnRouting(h1, object)
              parent == MapGet(h1.sessions, object.sessionId)
              routed == SubSeq(h2.emitted, Len(h1.emitted) + 1, Len(h2.emitted))
          IN  /\ h2 = OnMessageHeap(object)
              /\ h2.settled = h1.settled
              /\ h2.callbacks = h1.callbacks
              /\ SubSeq(h2.emitted, 1, Len(h1.emitted)) = h1.emitted
              /\ object.sessionId = "" =>
                    routed = <<[on |-> Null, name |-> object.method, arg |-> Null]>>
              /\ (object.sessionId # "" /\ parent = Null) => routed = <<>>
              /\ (object.sessionId # "" /\ parent # Null) =>
                    routed = <<[on |-> parent, name |-> object.method, arg |-> Null]>>

\* A call of the Connection and a call of a registered CDPSession are pending, and
\* some session id is not registered: a response may carry the id of either call
\* under either sessionId, the unregistered one or none.
C15_Witness ==
    /\ hooks
    /\ DOMAIN callbacks # {}
    /\ \E S \in SessionIds :
          Session(S) # Null /\ DOMAIN cdpSessions[Session(S)].callbacks # {}
    /\ \E S \in SessionIds : Session(S) = Null

\* The effects of rejecting the calls of `table`, in the order of the table.
RECURSIVE Rejections(_)
Rejections(ids) ==
    IF ids = {}
    THEN <<>>
    ELSE LET id == CHOOSE i \in ids : \A j \in ids : i <= j
         IN  <<Effect("settle", Null, "rejected", id)>> \o Rejections(ids \ {id})

\* C16: the handling of an attach notification naming S, whose envelope carries the
\* sessionId of another, registered CDPSession P, has these effects in this order:
\* the new CDPSession is registered under S, the attached notification is emitted on
\* the Connection, then on P, then the envelope is emitted on P under its method
\* name. The handling of a detach notification naming a registered S with such a P:
\* the calls of S are rejected, S emits its disconnected notification, S is removed
\* from the sessions map, the detached notification is emitted on the Connection,
\* then on P, then the envelope is emitted on P under its method name.
C16_OrderOfAttachAndDetach ==
    \A object \in Notifications :
        LET S == object.params.sessionId
            P == Session(object.sessionId)
            s == Session(S)
            new == Len(cdpSessions) + 1
            h == OnMessageHeap(object)
        IN  (object.sessionId # "" /\ object.sessionId # S /\ P # Null) =>
                /\ object.method = AttachedToTarget =>
                      /\ h.trace = <<Effect("set", Null, S, new),
                                     Effect("emit", Null, SessionAttached, new),
                                     Effect("emit", P, SessionAttached, new),
                                     Effect("emit", P, AttachedToTarget, Null)>>
                      /\ MapGet(h.sessions, S) = new
                      /\ h.cdpSessions[new].sessionId = S
                /\ (object.method = DetachedFromTarget /\ s # Null) =>
                      /\ h.trace = Rejections(DOMAIN cdpSessions[s].callbacks) \o
                                   <<Effect("emit", s, CDPSessionDisconnected, Null),
                                     Effect("delete", Null, S, s),
                                     Effect("emit", Null, SessionDetached, s),
                                     Effect("emit", P, SessionDetached, s),
                                     Effect("emit", P, DetachedFromTarget, Null)>>
                      /\ MapGet(h.sessions, S) = Null
                      /\ h.cdpSessions[s].callbacks = NoCallbacks

\* S1 and S2 are registered and S2 has a call pending: a detach notification naming
\* S2 may arrive in an envelope that carries the sessionId of S1.
C16_Witness ==
    /\ hooks
    /\ Session("S1") # Null
    /\ Session("S2") # Null
    /\ DOMAIN cdpSessions[Session("S2")].callbacks # {}

\* C17 (as claimed): on an open Connection a CDPSession holds its connection
\* reference exactly when it is the one registered in the sessions map under its
\* own id.
C17_ConnectionRefIffRegistered ==
    ~closed =>
        \A s \in CDPSessions :
            cdpSessions[s].connection <=> Session(cdpSessions[s].sessionId) = s

\* C18 (as claimed, for the first response to a call of a CDPSession, under the
\* sessionId the call was sent with): the assertion in CDPSession._onMessage holds,
\* the CDPSession that is handed the response has the call pending in its table.
C18_SessionRouterAssertionHolds ==
    \A s \in CDPSessions : \A id \in DOMAIN cdpSessions[s].callbacks :
        \A object \in Responses :
            (object.id = id /\ object.sessionId = cdpSessions[s].sessionId) =>
                ~OnMessageHeap(object).threw

\* C19: the handling of a detach notification naming a registered S rejects every
\* pending call of the CDPSession registered under S with the target-closed error of
\* its method, and no other call; it empties that session's table, clears its
\* connection reference and removes S from the sessions map; the Connection's table,
\* every other CDPSession and every other entry of the map are as before. When no
\* session is registered under S, the handling changes nothing, settles nothing and
\* emits neither a detached nor a disconnected notification.
C19_DetachTearsDownOnlyItsSession ==
    \A object \in Notifications :
        LET S == object.params.sessionId
            s == Session(S)
            h == OnMessageHeap(object)
        IN  object.method = DetachedFromTarget =>
                IF s # Null
                THEN /\ SettledIds(h) = DOMAIN cdpSessions[s].callbacks
                     /\ \A r \in h.settled :
                           /\ r.state = "rejected"
                           /\ ~r.again
                           /\ r.error.message =
                                 <<"Protocol error (",
                                   cdpSessions[s].callbacks[r.id].method, "): ",
                                   "Target closed.">>
                     /\ h.cdpSessions[s].callbacks = NoCallbacks
                     /\ ~h.cdpSessions[s].connection
                     /\ MapGet(h.sessions, S) = Null
                     /\ h.callbacks = callbacks
                     /\ DOMAIN h.cdpSessions = DOMAIN cdpSessions
                     /\ \A t \in CDPSessions \ {s} : h.cdpSessions[t] = cdpSessions[t]
                     /\ \A T \in SessionIds \ {S} :
                           MapGet(h.sessions, T) = MapGet(sessions, T)
                     /\ \A id \in DOMAIN promises \ DOMAIN cdpSessions[s].callbacks :
                           h.promises[id] = promises[id]
                ELSE /\ h.sessions = sessions
                     /\ h.callbacks = callbacks
                     /\ h.cdpSessions = cdpSessions
                     /\ h.promises = promises
                     /\ h.settled = {}
                     /\ \A i \in 1..Len(h.emitted) :
                           h.emitted[i].name \notin {SessionDetached,
                                                     CDPSessionDisconnected}

\* A call of the Connection and a call of a registered CDPSession are pending and
\* another CDPSession is registered: a detach notification may name either session.
C19_Witness ==
    /\ hooks
    /\ DOMAIN callbacks # {}
    /\ \E S, T \in SessionIds :
          /\ S # T
          /\ Session(S) # Null
          /\ Session(T) # Null
          /\ DOMAIN cdpSessions[Session(S)].callbacks # {}

\* C20: a step that hands a message to the transport is a send as a whole: it takes
\* the next id, hands over that one message and stores the pending call of that id,
\* and it settles nothing and leaves the sessions map alone (no handler ran within
\* it); so whenever the router runs, every call that was sent and is not settled is
\* in a table, and a response carrying its id, addressed to its owner, settles it.
C20_SendIsOneStep ==
    /\ [](/\ \A id \in SentIds : IsPending(id) => id \in Registered
          /\ \A owner \in Owners : \A id \in DOMAIN TableOf(owner) :
                \A object \in Responses :
                    (object.id = id /\ Addressed(object) = owner) =>
                        id \in SettledIds(OnMessageHeap(object)))
    /\ [][wire' # wire =>
            /\ lastId' = lastId + 1
            /\ wire' = Append(wire, lastId')
            /\ lastId' \in DOMAIN promises' /\ promises'[lastId'].state = "pending"
            /\ Registered' = Registered \cup {lastId'}
            /\ lastId' \notin Registered
            /\ \A id \in DOMAIN promises : promises'[id] = promises[id]
            /\ UNCHANGED <<sessions, closed>>]_vars

\* An earlier call has been answered and the call sent last is pending in a table
\* while the transport can deliver its response.
C20_Witness ==
    /\ hooks
    /\ Len(wire) >= 2
    /\ wire[1] \notin Registered
    /\ wire[Len(wire)] \in Registered

====
